---------------------------- MODULE Spec2Model ----------------------------
(***************************************************************************)
(* State-machine model of src/script.js: the DOMContentLoaded handler of   *)
(* the portfolio page and the callbacks it registers (theme toggle, mobile *)
(* menu, typing animator, scroll reveal, card tilt).                       *)
(*                                                                         *)
(* The browser runs one callback at a time, so every handler is one atomic *)
(* action.  Strings are sequences of one-character strings so that         *)
(* substring and length are computed, not assumed.                         *)
(***************************************************************************)
EXTENDS Integers, Sequences, FiniteSets, TLC

VARIABLES
    pc,            \* "loading": DOMContentLoaded not yet delivered; "ready": delivered
    pageLoads,     \* number of times the page has been loaded (DOMContentLoaded run)
    dom,           \* the single elements the page's markup contains
    storageMode,   \* "ok" | "readonly" (setItem throws) | "denied" (getItem and setItem throw)
    localStorage,  \* value stored under THEME_STORAGE_KEY, or null
    dataTheme,     \* the data-theme attribute of <html>, or null when absent
    listeners,     \* registered callbacks, as <<element kind, index>>
    uncaught,      \* callbacks out of which an exception has escaped
    menuActive,    \* navMenu.classList contains 'active'
    roles,         \* the role strings (script.js:116)
    roleIndex, charIndex, isDeleting, typeSpeed,
    textContent,   \* typingElement.textContent
    timers,        \* pending setTimeout(typeEffect, d) calls: the sequence of their delays
    revealTargets, \* the elements revealElements selects
    revealClass,   \* those carrying the 'reveal' class
    active,        \* those carrying the 'active' class
    observed,      \* those revealObserver observes
    tiltCards,     \* the elements tiltCards selects
    rect,          \* card -> its bounding rectangle
    tiltClass,     \* cards carrying the 'tilt-card' class
    transform      \* card -> its inline style.transform

envVars    == <<dom, storageMode, roles, revealTargets, tiltCards, rect>>
themeVars  == <<localStorage, dataTheme>>
typingVars == <<roleIndex, charIndex, isDeleting, typeSpeed, textContent, timers>>
revealVars == <<revealClass, active, observed>>
tiltVars   == <<tiltClass, transform>>
vars == <<pc, pageLoads, envVars, themeVars, listeners, uncaught, menuActive,
          typingVars, revealVars, tiltVars>>

null == "null"

-----------------------------------------------------------------------------
(* Bounds of the model *)

MaxReveal  == 2    \* reveal targets on the page
MaxLinks   == 2    \* nav links on the page
MaxEntries == 2    \* entries delivered by one IntersectionObserver callback
MaxLoads   == 2    \* page loads in one run (the first load and one reload)
MaxDim     == 2    \* largest card width and height, in pixels

-----------------------------------------------------------------------------
(* Strings *)

Min(a, b) == IF a < b THEN a ELSE b
Max(a, b) == IF a > b THEN a ELSE b

\* String.prototype.substring(start, end): both arguments are clamped to
\* [0, length] and swapped when start > end.
substring(s, start, end) ==
    LET a  == Min(Max(start, 0), Len(s))
        b  == Min(Max(end, 0), Len(s))
        lo == Min(a, b)
        hi == Max(a, b)
    IN  [i \in 1..(hi - lo) |-> s[lo + i]]

\* roles as written at script.js:116
SourceRoles ==
    << <<"L","a","k","d","a","r","a","m"," ","S","r","i","d","h","a","r"," ","Y","a","d","a","v">>,
       <<"F","r","o","n","t","e","n","d"," ","D","e","v","e","l","o","p","e","r">> >>

\* Other role lists the animator is run on: the example of the specification,
\* a single one-character role, and three roles of different lengths.
RoleSeqs ==
    { SourceRoles,
      << <<"A","B">>, <<"C","D">> >>,
      << <<"A">> >>,
      << <<"A","B">>, <<"C">>, <<"D","E","F">> >> }

SmallRoleSeqs == { << <<"A","B">>, <<"C","D">> >>, << <<"A">> >> }

-----------------------------------------------------------------------------
(* Rational numbers, as normalised <<numerator, denominator>> pairs *)

Abs(n) == IF n < 0 THEN -n ELSE n

RECURSIVE Gcd(_, _)
Gcd(a, b) == IF b = 0 THEN a ELSE Gcd(b, a % b)

Rat(n, d) ==
    LET g == Gcd(Abs(n), Abs(d))
        s == IF d < 0 THEN -1 ELSE 1
    IN  <<(s * n) \div g, (s * d) \div g>>

RatSub(p, q) == Rat(p[1] * q[2] - q[1] * p[2], p[2] * q[2])
RatMul(p, q) == Rat(p[1] * q[1], p[2] * q[2])
RatDiv(p, q) == Rat(p[1] * q[2], p[2] * q[1])

-----------------------------------------------------------------------------
(* The environment: markup and storage *)

SingleElements == {"theme-toggle", "mobile-menu-btn", "main-nav", "typing-text"}
StoredValues   == {null, "light", "dark"}
navLinks       == 1..MaxLinks

\* localStorage.getItem / setItem raise an exception when storage is unavailable.
getItemThrows == storageMode = "denied"
setItemThrows == storageMode \in {"readonly", "denied"}

\* The cards of the page: one element for each selector of script.js:189,
\* 1 the '.skill-card' and 2 the '.visual-glass-card'.
PageCards == {1, 2}

\* A card of one pixel by one pixel whose top-left corner is at (1, 1).
UnitRect == [left |-> 1, top |-> 1, width |-> 1, height |-> 1]

-----------------------------------------------------------------------------
(* Theme *)

\* applyTheme with its two branches exchanged.
applyTheme_swapped(theme) == IF theme = "light" THEN null ELSE "light"

\* applyTheme(theme): the data-theme attribute it leaves on <html>.
applyTheme(theme) == IF theme = "light" THEN "light" ELSE null

\* JavaScript truthiness of a getItem result: null and "" are falsy.
Truthy(v) == v \notin {null, ""}

\* initTheme that reads the saved value and applies nothing.
initTheme_ignoreSaved(savedTheme, attr) == attr

\* initTheme that applies the light theme when nothing is saved.
initTheme_defaultLight(savedTheme, attr) ==
    IF Truthy(savedTheme) THEN applyTheme(savedTheme) ELSE "light"

\* initTheme(): the attribute after it, given the saved value and the attribute before.
initTheme(savedTheme, attr) ==
    IF Truthy(savedTheme) THEN applyTheme(savedTheme) ELSE attr

\* const isLight = htmlElement.hasAttribute('data-theme')
isLight(attr) == attr # null

\* const newTheme = isLight ? 'dark' : 'light'
newTheme(light) == IF light THEN "dark" ELSE "light"

-----------------------------------------------------------------------------
(* Typing animator *)

InitialAnim ==
    [roleIndex |-> 0, charIndex |-> 0, isDeleting |-> FALSE, typeSpeed |-> 100,
     textContent |-> <<>>]

animState ==
    [roleIndex |-> roleIndex, charIndex |-> charIndex, isDeleting |-> isDeleting,
     typeSpeed |-> typeSpeed, textContent |-> textContent]

\* stepChar that deletes at the typing speed.
stepChar_sameSpeed(rls, st) ==
    LET currentRole == rls[st.roleIndex + 1]
    IN  IF st.isDeleting
        THEN [st EXCEPT !.textContent = substring(currentRole, 0, st.charIndex - 1),
                        !.charIndex = st.charIndex - 1,
                        !.typeSpeed = 100]
        ELSE [st EXCEPT !.textContent = substring(currentRole, 0, st.charIndex + 1),
                        !.charIndex = st.charIndex + 1,
                        !.typeSpeed = 100]

\* stepChar that renders the text before it moves the cursor.
stepChar_renderBefore(rls, st) ==
    LET currentRole == rls[st.roleIndex + 1]
    IN  IF st.isDeleting
        THEN [st EXCEPT !.textContent = substring(currentRole, 0, st.charIndex),
                        !.charIndex = st.charIndex - 1,
                        !.typeSpeed = 50]
        ELSE [st EXCEPT !.textContent = substring(currentRole, 0, st.charIndex),
                        !.charIndex = st.charIndex + 1,
                        !.typeSpeed = 100]

\* script.js:125-135: add or remove one character.
stepChar(rls, st) ==
    LET currentRole == rls[st.roleIndex + 1]
    IN  IF st.isDeleting
        THEN [st EXCEPT !.textContent = substring(currentRole, 0, st.charIndex - 1),
                        !.charIndex = st.charIndex - 1,
                        !.typeSpeed = 50]
        ELSE [st EXCEPT !.textContent = substring(currentRole, 0, st.charIndex + 1),
                        !.charIndex = st.charIndex + 1,
                        !.typeSpeed = 100]

\* stepPhase with the end of the word tested one character late.
stepPhase_lateFlip(rls, before, st) ==
    LET currentRole == rls[before.roleIndex + 1]
    IN  IF ~st.isDeleting /\ st.charIndex = Len(currentRole) + 1
        THEN [st EXCEPT !.isDeleting = TRUE, !.typeSpeed = 2000]
        ELSE IF st.isDeleting /\ st.charIndex = 0
        THEN [st EXCEPT !.isDeleting = FALSE,
                        !.roleIndex = (st.roleIndex + 1) % Len(rls),
                        !.typeSpeed = 500]
        ELSE st

\* stepPhase with the end of the word tested one character early.
stepPhase_earlyFlip(rls, before, st) ==
    LET currentRole == rls[before.roleIndex + 1]
    IN  IF ~st.isDeleting /\ st.charIndex + 1 >= Len(currentRole)
        THEN [st EXCEPT !.isDeleting = TRUE, !.typeSpeed = 2000]
        ELSE IF st.isDeleting /\ st.charIndex = 0
        THEN [st EXCEPT !.isDeleting = FALSE,
                        !.roleIndex = (st.roleIndex + 1) % Len(rls),
                        !.typeSpeed = 500]
        ELSE st

\* stepPhase that restarts the same role after deleting it.
stepPhase_noAdvance(rls, before, st) ==
    LET currentRole == rls[before.roleIndex + 1]
    IN  IF ~st.isDeleting /\ st.charIndex = Len(currentRole)
        THEN [st EXCEPT !.isDeleting = TRUE, !.typeSpeed = 2000]
        ELSE IF st.isDeleting /\ st.charIndex = 0
        THEN [st EXCEPT !.isDeleting = FALSE, !.typeSpeed = 500]
        ELSE st

\* script.js:137-146: flip the phase at the end of a word and at the empty text.
\* currentRole is the role read at the top of the tick (script.js:123).
stepPhase(rls, before, st) ==
    LET currentRole == rls[before.roleIndex + 1]
    IN  IF ~st.isDeleting /\ st.charIndex = Len(currentRole)
        THEN [st EXCEPT !.isDeleting = TRUE, !.typeSpeed = 2000]
        ELSE IF st.isDeleting /\ st.charIndex = 0
        THEN [st EXCEPT !.isDeleting = FALSE,
                        !.roleIndex = (st.roleIndex + 1) % Len(rls),
                        !.typeSpeed = 500]
        ELSE st

\* The body of typeEffect up to the setTimeout call.
typeEffectBody(rls, st) == stepPhase(rls, st, stepChar(rls, st))

\* setTimeout(typeEffect, delay): one more pending timer.
setTimeout(q, delay) == Append(q, delay)

\* A timer that stays pending after it fires, as one set with setInterval does.
fireTimer_keep(q, i) == q

\* The timer that fires leaves the pending list.
fireTimer(q, i) == [j \in 1..(Len(q) - 1) |-> IF j < i THEN q[j] ELSE q[j + 1]]

-----------------------------------------------------------------------------
(* Scroll reveal *)

\* The callback with classList.toggle in place of add and without unobserve.
RECURSIVE revealEntries_toggle(_, _, _)
revealEntries_toggle(entries, act, obs) ==
    IF entries = <<>>
    THEN <<act, obs>>
    ELSE LET entry == Head(entries)
         IN  IF entry.isIntersecting
             THEN revealEntries_toggle(Tail(entries),
                                       IF entry.target \in act
                                       THEN act \ {entry.target}
                                       ELSE act \cup {entry.target},
                                       obs)
             ELSE revealEntries_toggle(Tail(entries), act, obs)

\* The callback without its unobserve call.
RECURSIVE revealEntries_noUnobserve(_, _, _)
revealEntries_noUnobserve(entries, act, obs) ==
    IF entries = <<>>
    THEN <<act, obs>>
    ELSE LET entry == Head(entries)
         IN  IF entry.isIntersecting
             THEN revealEntries_noUnobserve(Tail(entries), act \cup {entry.target}, obs)
             ELSE revealEntries_noUnobserve(Tail(entries), act, obs)

\* entries.forEach(entry => ...) of the observer callback: the 'active' and the
\* observed sets after the entries, as <<active, observed>>.
RECURSIVE revealEntries(_, _, _)
revealEntries(entries, act, obs) ==
    IF entries = <<>>
    THEN <<act, obs>>
    ELSE LET entry == Head(entries)
         IN  IF entry.isIntersecting
             THEN revealEntries(Tail(entries), act \cup {entry.target},
                                obs \ {entry.target})
             ELSE revealEntries(Tail(entries), act, obs)

\* The batches of entries one callback can receive: entries are produced for
\* observed targets only, and one target may occur more than once in a batch.
EntryBatches(obs) ==
    UNION { [1..n -> [target : obs, isIntersecting : BOOLEAN]] : n \in 1..MaxEntries }

-----------------------------------------------------------------------------
(* Card tilt *)

noTransform ==
    [perspective |-> 0, rotateX |-> Rat(0, 1), rotateY |-> Rat(0, 1), scale |-> Rat(1, 1)]

\* 'perspective(1000px) rotateX(0) rotateY(0) scale(1)'
resetTransform ==
    [perspective |-> 1000, rotateX |-> Rat(0, 1), rotateY |-> Rat(0, 1),
     scale |-> Rat(1, 1)]

\* tiltTransform without the negation of the vertical offset.
tiltTransform_noNegation(r, clientX, clientY) ==
    LET x       == Rat(clientX - r.left, 1)
        y       == Rat(clientY - r.top, 1)
        xCenter == Rat(r.width, 2)
        yCenter == Rat(r.height, 2)
        rotateX == RatMul(RatDiv(RatSub(y, yCenter), yCenter), Rat(10, 1))
        rotateY == RatMul(RatDiv(RatSub(x, xCenter), xCenter), Rat(10, 1))
    IN  [perspective |-> 1000, rotateX |-> rotateX, rotateY |-> rotateY,
         scale |-> Rat(105, 100)]

\* tiltTransform with the two offsets exchanged.
tiltTransform_swappedAxes(r, clientX, clientY) ==
    LET x       == Rat(clientX - r.left, 1)
        y       == Rat(clientY - r.top, 1)
        xCenter == Rat(r.width, 2)
        yCenter == Rat(r.height, 2)
        rotateX == RatMul(RatDiv(RatSub(x, xCenter), xCenter), Rat(-10, 1))
        rotateY == RatMul(RatDiv(RatSub(y, yCenter), yCenter), Rat(10, 1))
    IN  [perspective |-> 1000, rotateX |-> rotateX, rotateY |-> rotateY,
         scale |-> Rat(105, 100)]

\* The transform the mousemove handler computes for a pointer at (clientX, clientY).
tiltTransform(r, clientX, clientY) ==
    LET x       == Rat(clientX - r.left, 1)
        y       == Rat(clientY - r.top, 1)
        xCenter == Rat(r.width, 2)
        yCenter == Rat(r.height, 2)
        rotateX == RatMul(RatDiv(RatSub(y, yCenter), yCenter), Rat(-10, 1))
        rotateY == RatMul(RatDiv(RatSub(x, xCenter), xCenter), Rat(10, 1))
    IN  [perspective |-> 1000, rotateX |-> rotateX, rotateY |-> rotateY,
         scale |-> Rat(105, 100)]

-----------------------------------------------------------------------------
(* Initial states *)

\* The document before DOMContentLoaded is delivered.
FreshPage ==
    /\ pc = "loading"
    /\ pageLoads = 0
    /\ dataTheme = null
    /\ listeners = {}
    /\ uncaught = {}
    /\ menuActive = FALSE
    /\ roleIndex = InitialAnim.roleIndex
    /\ charIndex = InitialAnim.charIndex
    /\ isDeleting = InitialAnim.isDeleting
    /\ typeSpeed = InitialAnim.typeSpeed
    /\ textContent = InitialAnim.textContent
    /\ timers = <<>>
    /\ revealClass = {}
    /\ active = {}
    /\ observed = {}
    /\ tiltClass = {}
    /\ transform = [c \in tiltCards |-> noTransform]

\* The page as shipped: every element present, storage working.
ShippedPage ==
    /\ dom = SingleElements
    /\ storageMode = "ok"
    /\ revealTargets = 1..MaxReveal
    /\ tiltCards = PageCards
    /\ rect = [c \in tiltCards |-> UnitRect]

\* One thing wrong with the page or the browser, or nothing.
Faults ==
    {"none", "storage-readonly", "storage-denied", "reveal-targets", "tilt-cards"}
        \cup SingleElements

FaultyPage(fault) ==
    /\ dom = SingleElements \ {fault}
    /\ storageMode = IF fault = "storage-readonly" THEN "readonly"
                     ELSE IF fault = "storage-denied" THEN "denied" ELSE "ok"
    /\ revealTargets = IF fault = "reveal-targets" THEN {} ELSE 1..MaxReveal
    /\ tiltCards = IF fault = "tilt-cards" THEN {} ELSE PageCards
    /\ rect = [c \in tiltCards |-> UnitRect]

\* A first visit: nothing is stored yet; a stored value is one a toggle wrote.
Init ==
    /\ ShippedPage
    /\ roles \in SmallRoleSeqs
    /\ localStorage = null
    /\ FreshPage

InitTyping ==
    /\ ShippedPage
    /\ roles \in RoleSeqs
    /\ localStorage \in StoredValues
    /\ FreshPage

\* The shipped page with nothing, "light" or "dark" saved by an earlier visit.
InitStored ==
    /\ ShippedPage
    /\ roles \in SmallRoleSeqs
    /\ localStorage \in StoredValues
    /\ FreshPage

\* A row of cards of one size: card c has its top-left corner at (c, 2).
cardRow(width, height) ==
    [c \in PageCards |-> [left |-> c, top |-> 2, width |-> width, height |-> height]]

\* The shipped page with cards of every size up to MaxDim.
InitTilt ==
    /\ dom = SingleElements
    /\ storageMode = "ok"
    /\ revealTargets = 1..MaxReveal
    /\ tiltCards = PageCards
    /\ \E width \in 1..MaxDim, height \in 1..MaxDim : rect = cardRow(width, height)
    /\ roles = SourceRoles
    /\ localStorage = null
    /\ FreshPage

InitEnv ==
    /\ \E fault \in Faults : FaultyPage(fault)
    /\ roles \in SmallRoleSeqs
    /\ localStorage \in StoredValues
    /\ FreshPage

-----------------------------------------------------------------------------
(* The DOMContentLoaded handler, script.js:9-215 *)

\* An exception thrown in the handler ends it: the statements after the throwing
\* one do not run.  initTheme() throws when getItem does (script.js:47, 61).
reachedThemeListener == ~getItemThrows

\* themeToggleBtn.addEventListener throws a TypeError on null (script.js:64).
reachedMenuListener == reachedThemeListener /\ "theme-toggle" \in dom

\* mobileMenuBtn.addEventListener throws a TypeError on null (script.js:89);
\* nothing after it throws.
startupCompletes == reachedMenuListener /\ "mobile-menu-btn" \in dom

\* The start of the animator without its guard on typingElement.
startsTyping_unguarded == startupCompletes

\* if (typingElement) typeEffect()   (script.js:152-154)
startsTyping == startupCompletes /\ "typing-text" \in dom

startupListeners ==
    (IF reachedMenuListener THEN {<<"theme-toggle", 0>>} ELSE {})
        \cup (IF startupCompletes
              THEN {<<"mobile-menu-btn", 0>>}
                       \cup {<<"nav-link", i>> : i \in navLinks}
                       \cup {<<"tilt-card", c>> : c \in tiltCards}
              ELSE {})

\* The handler run on a fresh document.
PageLoad ==
    LET st == IF startsTyping THEN typeEffectBody(roles, InitialAnim) ELSE InitialAnim
    IN  /\ pc' = "ready"
        /\ pageLoads' = pageLoads + 1
        /\ dataTheme' = IF getItemThrows THEN null ELSE initTheme(localStorage, null)
        /\ listeners' = startupListeners
        /\ uncaught' = IF startupCompletes THEN {} ELSE {"DOMContentLoaded"}
        /\ menuActive' = FALSE
        /\ roleIndex' = st.roleIndex
        /\ charIndex' = st.charIndex
        /\ isDeleting' = st.isDeleting
        /\ typeSpeed' = st.typeSpeed
        /\ textContent' = st.textContent
        /\ timers' = IF startsTyping THEN setTimeout(<<>>, st.typeSpeed) ELSE <<>>
        /\ revealClass' = IF startupCompletes THEN revealTargets ELSE {}
        /\ active' = {}
        /\ observed' = IF startupCompletes THEN revealTargets ELSE {}
        /\ tiltClass' = IF startupCompletes THEN tiltCards ELSE {}
        /\ transform' = [c \in tiltCards |-> noTransform]
        /\ UNCHANGED <<envVars, localStorage>>

DOMContentLoaded ==
    /\ pc = "loading"
    /\ PageLoad

\* The user reloads the page: the document is rebuilt from the markup, the
\* handler runs again, and only localStorage survives.
Reload ==
    /\ pc = "ready"
    /\ pageLoads < MaxLoads
    /\ PageLoad

-----------------------------------------------------------------------------
(* Callbacks *)

\* A theme toggle that also closes the mobile menu.
themeToggleClick_closesMenu ==
    /\ pc = "ready"
    /\ <<"theme-toggle", 0>> \in listeners
    /\ LET theme == newTheme(isLight(dataTheme))
       IN  /\ dataTheme' = applyTheme(theme)
           /\ localStorage' = IF setItemThrows THEN localStorage ELSE theme
           /\ uncaught' = IF setItemThrows
                          THEN uncaught \cup {"theme-toggle:click"}
                          ELSE uncaught
    /\ menuActive' = FALSE
    /\ UNCHANGED <<pc, pageLoads, envVars, listeners, typingVars,
                   revealVars, tiltVars>>

\* themeToggleBtn click, script.js:64-76.  applyTheme runs before setItem, so a
\* throwing setItem leaves the attribute changed and the store as it was.
themeToggleClick ==
    /\ pc = "ready"
    /\ <<"theme-toggle", 0>> \in listeners
    /\ LET theme == newTheme(isLight(dataTheme))
       IN  /\ dataTheme' = applyTheme(theme)
           /\ localStorage' = IF setItemThrows THEN localStorage ELSE theme
           /\ uncaught' = IF setItemThrows
                          THEN uncaught \cup {"theme-toggle:click"}
                          ELSE uncaught
    /\ UNCHANGED <<pc, pageLoads, envVars, listeners, menuActive, typingVars,
                   revealVars, tiltVars>>

\* mobileMenuBtn click, script.js:89-98.  navMenu.classList throws on null.
mobileMenuClick ==
    /\ pc = "ready"
    /\ <<"mobile-menu-btn", 0>> \in listeners
    /\ menuActive' = IF "main-nav" \in dom THEN ~menuActive ELSE menuActive
    /\ uncaught' = IF "main-nav" \in dom
                   THEN uncaught
                   ELSE uncaught \cup {"mobile-menu-btn:click"}
    /\ UNCHANGED <<pc, pageLoads, envVars, themeVars, listeners, typingVars,
                   revealVars, tiltVars>>

\* A nav link click that toggles the menu instead of closing it.
navLinkClick_toggle(i) ==
    /\ pc = "ready"
    /\ <<"nav-link", i>> \in listeners
    /\ menuActive' = ~menuActive
    /\ UNCHANGED <<pc, pageLoads, envVars, themeVars, listeners, uncaught,
                   typingVars, revealVars, tiltVars>>

\* nav link click, script.js:103-108.
navLinkClick(i) ==
    /\ pc = "ready"
    /\ <<"nav-link", i>> \in listeners
    /\ menuActive' = IF "main-nav" \in dom /\ menuActive THEN FALSE ELSE menuActive
    /\ uncaught' = IF "main-nav" \in dom
                   THEN uncaught
                   ELSE uncaught \cup {"nav-link:click"}
    /\ UNCHANGED <<pc, pageLoads, envVars, themeVars, listeners, typingVars,
                   revealVars, tiltVars>>

\* A pending timer fires and runs typeEffect, script.js:122-149.
typeEffect ==
    /\ pc = "ready"
    /\ \E i \in DOMAIN timers :
          LET st == typeEffectBody(roles, animState)
          IN  /\ roleIndex' = st.roleIndex
              /\ charIndex' = st.charIndex
              /\ isDeleting' = st.isDeleting
              /\ typeSpeed' = st.typeSpeed
              /\ textContent' = st.textContent
              /\ timers' = setTimeout(fireTimer(timers, i), st.typeSpeed)
    /\ UNCHANGED <<pc, pageLoads, envVars, themeVars, listeners, uncaught,
                   menuActive, revealVars, tiltVars>>

\* The IntersectionObserver callback run on one batch of entries, script.js:168-174.
revealCallbackOn(entries) ==
    /\ pc = "ready"
    /\ UNCHANGED <<pc, pageLoads, envVars, themeVars, listeners, uncaught,
                   menuActive, typingVars, revealClass, tiltVars>>
    /\ LET after == revealEntries(entries, active, observed)
       IN  /\ active' = after[1]
           /\ observed' = after[2]

revealCallback == \E entries \in EntryBatches(observed) : revealCallbackOn(entries)

\* mousemove that writes the transform of every card.
mousemove_allCards(card, clientX, clientY) ==
    /\ pc = "ready"
    /\ <<"tilt-card", card>> \in listeners
    /\ transform' = [c \in tiltCards |-> tiltTransform(rect[card], clientX, clientY)]
    /\ UNCHANGED <<pc, pageLoads, envVars, themeVars, listeners, uncaught,
                   menuActive, typingVars, revealVars, tiltClass>>

\* mousemove on a card, script.js:194-207, with the pointer inside the card.
mousemove(card, clientX, clientY) ==
    /\ pc = "ready"
    /\ <<"tilt-card", card>> \in listeners
    /\ UNCHANGED <<revealVars, typingVars, themeVars, menuActive, tiltClass,
                   pc, pageLoads, envVars, listeners, uncaught>>
    /\ transform' = [transform EXCEPT ![card] = tiltTransform(rect[card], clientX, clientY)]

\* mouseleave on a card, script.js:209-212.
mouseleave(card) ==
    /\ pc = "ready"
    /\ <<"tilt-card", card>> \in listeners
    /\ UNCHANGED <<revealVars, typingVars, themeVars, menuActive, tiltClass,
                   pc, pageLoads, envVars, listeners, uncaught>>
    /\ transform' = [transform EXCEPT ![card] = resetTransform]

PointerMove ==
    \E card \in tiltCards :
        \E clientX \in rect[card].left .. (rect[card].left + rect[card].width),
           clientY \in rect[card].top .. (rect[card].top + rect[card].height) :
            mousemove(card, clientX, clientY)

PointerLeave == \E card \in tiltCards : mouseleave(card)

NavLinkClick == \E i \in navLinks : navLinkClick(i)

-----------------------------------------------------------------------------
(* Specifications *)

Next ==
    \/ DOMContentLoaded
    \/ themeToggleClick
    \/ mobileMenuClick
    \/ NavLinkClick
    \/ typeEffect
    \/ revealCallback
    \/ PointerMove
    \/ PointerLeave

\* One page load, every callback in any order.
Spec == Init /\ [][Next]_vars

\* The theme across page reloads, the animator and the menu running beside it.
NextReload ==
    \/ DOMContentLoaded
    \/ Reload
    \/ themeToggleClick
    \/ mobileMenuClick
    \/ typeEffect
SpecReload == Init /\ [][NextReload]_vars

\* The same, from every saved theme.
SpecStored == InitStored /\ [][NextReload]_vars

\* The same on a page with one element missing or storage failing.
SpecEnv == InitEnv /\ [][Next]_vars

\* The reveal observer beside the theme, the menu and the animator.
NextReveal ==
    \/ DOMContentLoaded
    \/ themeToggleClick
    \/ mobileMenuClick
    \/ NavLinkClick
    \/ typeEffect
    \/ revealCallback
SpecReveal == Init /\ [][NextReveal]_vars

\* The tilt handlers alone, on cards of every size up to MaxDim.
NextTilt == DOMContentLoaded \/ PointerMove \/ PointerLeave
SpecTilt == InitTilt /\ [][NextTilt]_vars

\* The animator alone, on every role list of RoleSeqs.
NextTyping == DOMContentLoaded \/ typeEffect
SpecTyping == InitTyping /\ [][NextTyping]_vars

\* The browser delivers DOMContentLoaded and fires every pending timer.
LiveTyping == SpecTyping /\ WF_vars(DOMContentLoaded) /\ WF_vars(typeEffect)

-----------------------------------------------------------------------------
(* Typing animator: C1, C2, C3 *)

NonEmptyRoles == \A r \in DOMAIN roles : Len(roles[r]) > 0

\* A step in which typeEffect ran: every tick moves charIndex by one, and
\* nothing else changes it.
TickStep == charIndex' # charIndex

\* n consecutive ticks from animator state st.
RECURSIVE ticks(_, _, _)
ticks(rls, st, n) == IF n = 0 THEN st ELSE ticks(rls, typeEffectBody(rls, st), n - 1)

\* C1: with every role non-empty, in every state reached by typeEffect ticks from
\* {roleIndex 0, charIndex 0, isDeleting false}, 0 <= charIndex <=
\* length(roles[roleIndex]) and 0 <= roleIndex < length(roles).
C1_AnimatorBounds ==
    NonEmptyRoles =>
        /\ 0 <= roleIndex /\ roleIndex < Len(roles)
        /\ 0 <= charIndex /\ charIndex <= Len(roles[roleIndex + 1])

\* The second role of the source list is typed out in full: the upper bound is met.
C1_Witness ==
    /\ pc = "ready" /\ roles = SourceRoles /\ NonEmptyRoles
    /\ roleIndex = 1 /\ charIndex = Len(roles[2])

\* C2: a tick turns Typing into Deleting only if charIndex is then the length of
\* the current role, and Deleting into Typing only if charIndex is then 0;
\* roleIndex changes only on a Deleting-to-Typing tick, which sets it to
\* (roleIndex + 1) mod length(roles); on every other tick the phase and roleIndex
\* stay as they are.
C2_PhaseChanges ==
    [][TickStep =>
        /\ (~isDeleting /\ isDeleting') =>
               (charIndex' = Len(roles[roleIndex + 1]) /\ roleIndex' = roleIndex)
        /\ (isDeleting /\ ~isDeleting') =>
               (charIndex' = 0 /\ roleIndex' = (roleIndex + 1) % Len(roles))
        /\ (isDeleting' = isDeleting) => roleIndex' = roleIndex
        /\ (~isDeleting /\ charIndex' # Len(roles[roleIndex + 1])) => ~isDeleting'
        /\ (isDeleting /\ charIndex' # 0) => isDeleting'
      ]_vars

\* A word has been deleted to the end, and the index has moved on from 0.
C2_Witness ==
    /\ pc = "ready" /\ roles = SourceRoles
    /\ roleIndex = 1 /\ charIndex = 0 /\ ~isDeleting

\* C3: from every state {index i, cursor 0, Typing}, length(roles[i]) ticks give
\* the whole of roles[i] as text and the phase Deleting, and as many further ticks
\* give the empty text, the phase Typing and the index (i + 1) mod length(roles).
C3_WordCycle ==
    (NonEmptyRoles /\ charIndex = 0 /\ ~isDeleting) =>
        LET n     == Len(roles[roleIndex + 1])
            typed == ticks(roles, animState, n)
            done  == ticks(roles, typed, n)
        IN  /\ typed.textContent = roles[roleIndex + 1]
            /\ typed.isDeleting
            /\ typed.roleIndex = roleIndex
            /\ done.textContent = <<>>
            /\ ~done.isDeleting
            /\ done.roleIndex = (roleIndex + 1) % Len(roles)

\* The example of the specification after its four ticks: "" / Typing / index 1,
\* from where the second word cycle starts.
C3_Witness ==
    /\ pc = "ready" /\ roles = << <<"A", "B">>, <<"C", "D">> >>
    /\ roleIndex = 1 /\ charIndex = 0 /\ ~isDeleting /\ textContent = <<>>
    /\ ticks(roles, animState, 2).textContent = <<"C", "D">>

-----------------------------------------------------------------------------
(* Typing animator: C4, C5, C6 *)

\* typeEffect has been called by the handler (script.js:152-154).
animatorStarted == pc = "ready" /\ startsTyping

RoleIndices == UNION { 0..(Len(r) - 1) : r \in RoleSeqs }

\* Role i is on screen in full.
FullRole(i) == i < Len(roles) /\ roleIndex = i /\ textContent = roles[i + 1]

NextRole(i) == IF i < Len(roles) THEN (i + 1) % Len(roles) ELSE i

\* C4: with every pending timer eventually firing, a started animator always
\* has a tick pending, every role is on screen in full again and again, and the
\* roles follow each other in the cyclic order of the list.
C4_CyclesForever ==
    /\ [](animatorStarted => Len(timers) >= 1)
    /\ \A i \in RoleIndices : []<>(i < Len(roles) => FullRole(i))
    /\ \A i \in RoleIndices : (FullRole(i) ~> FullRole(NextRole(i)))
    /\ [][roleIndex' # roleIndex => roleIndex' = (roleIndex + 1) % Len(roles)]_vars

\* The third role of a three-role list is on screen in full, a tick pending.
C4_Witness ==
    /\ animatorStarted /\ Len(roles) = 3 /\ Len(timers) >= 1
    /\ FullRole(2)

\* C5: at most one typeEffect timer is pending in every state, whatever clicks,
\* pointer events and visibility callbacks are interleaved; timers change only in
\* a tick, and a tick run by a timer consumes that timer and schedules one.
C5_NoOverlappingTicks ==
    /\ [](Len(timers) <= 1)
    /\ [][timers' # timers => TickStep]_vars
    /\ [][(TickStep /\ pc = "ready") => (Len(timers) = 1 /\ Len(timers') = 1)]_vars

\* Ticks have run between a theme click, a menu click, a reveal and a pointer leave.
C5_Witness ==
    /\ pc = "ready" /\ Len(timers) = 1 /\ isDeleting
    /\ dataTheme = "light" /\ menuActive /\ active # {}
    /\ \E c \in tiltCards : transform[c] = resetTransform

\* The delay of the timer a tick has just scheduled.
scheduledDelay(q) == q[Len(q)]

\* C6: the delay a tick schedules is 2000 exactly when the tick turned the phase
\* to Deleting, 500 exactly when it turned the phase to Typing (and advanced the
\* index), and otherwise 100 after typing a character and 50 after deleting one.
C6_DelaySelection ==
    [][TickStep =>
        LET d == scheduledDelay(timers')
        IN  /\ d \in {50, 100, 500, 2000}
            /\ (d = 2000) <=> (~isDeleting /\ isDeleting')
            /\ (d = 500) <=> (isDeleting /\ ~isDeleting')
            /\ (d = 500) => roleIndex' = (roleIndex + 1) % Len(roles)
            /\ (isDeleting' = isDeleting) => d = (IF isDeleting THEN 50 ELSE 100)
      ]_vars

\* The tick that removed the last character of the first role has scheduled 500.
C6_Witness ==
    /\ pc = "ready" /\ roles = SourceRoles
    /\ timers = <<500>> /\ roleIndex = 1 /\ textContent = <<>>

-----------------------------------------------------------------------------
(* Theme: C7, C8 *)

\* The mode a data-theme attribute stands for.
modeOf(attr) == IF attr # null THEN "light" ELSE "dark"

\* C7: every toggle click leaves the document in the mode opposite to the one
\* before it, and the persisted value equal to the new mode.
C7_ToggleAlternates ==
    [][themeToggleClick =>
        /\ modeOf(dataTheme') # modeOf(dataTheme)
        /\ (dataTheme = null) <=> (dataTheme' # null)
        /\ localStorage' = modeOf(dataTheme')
      ]_vars

\* Dark -> toggle -> Light -> toggle -> Dark, persisted "dark": nothing but a
\* toggle out of Light writes "dark".
C7_Witness ==
    /\ pc = "ready" /\ pageLoads = 1
    /\ dataTheme = null /\ localStorage = "dark"

\* C8: a reload followed by initTheme gives the mode that was in effect before
\* the reload; a persisted "light" gives the marker present.
C8_ReloadRoundTrip ==
    [][Reload =>
        /\ modeOf(dataTheme') = modeOf(dataTheme)
        /\ (localStorage = "light" => dataTheme' # null)
      ]_vars

\* The page has been reloaded after a toggle to Light and is in Light mode.
C8_Witness ==
    /\ pc = "ready" /\ pageLoads = 2
    /\ localStorage = "light" /\ dataTheme = "light"

-----------------------------------------------------------------------------
(* Degradation: C9, C10 *)

themeInitialised  == <<"theme-toggle", 0>> \in listeners
menuInitialised   ==
    {<<"mobile-menu-btn", 0>>} \cup {<<"nav-link", i>> : i \in navLinks} \subseteq listeners
typingInitialised == Len(timers) >= 1
revealInitialised == revealClass = revealTargets /\ observed \cup active = revealTargets
tiltInitialised   ==
    tiltClass = tiltCards /\ {<<"tilt-card", c>> : c \in tiltCards} \subseteq listeners

\* C9: when reading or writing the persisted theme throws, no exception escapes
\* the handler or the toggle callback, the toggle is still registered, and the
\* menu, typing, reveal and tilt behaviours are initialised.
C9_StorageFailuresSwallowed ==
    (storageMode # "ok" /\ pc = "ready") =>
        /\ uncaught = {}
        /\ themeInitialised
        /\ menuInitialised /\ typingInitialised /\ revealInitialised /\ tiltInitialised

\* C10: with one targeted element absent the handler raises no error, and every
\* behaviour that does not depend on the absent element is initialised.
C10_PerFeatureDegradation ==
    (storageMode = "ok" /\ pc = "ready") =>
        /\ "DOMContentLoaded" \notin uncaught
        /\ ("theme-toggle" \in dom => themeInitialised)
        /\ ({"mobile-menu-btn", "main-nav"} \subseteq dom => menuInitialised)
        /\ ("typing-text" \in dom => typingInitialised)
        /\ revealInitialised
        /\ tiltInitialised

-----------------------------------------------------------------------------
(* Typing animator: C11 *)

\* C11: on a page without the typing-text element typeEffect is never called:
\* no timer is ever pending and roleIndex, charIndex and the phase keep their
\* initial values, whatever other callbacks run.
C11_MissingTypingElement ==
    ("typing-text" \notin dom) =>
        /\ timers = <<>>
        /\ roleIndex = InitialAnim.roleIndex
        /\ charIndex = InitialAnim.charIndex
        /\ isDeleting = InitialAnim.isDeleting
        /\ textContent = InitialAnim.textContent

\* The page without the element has loaded, and a theme click, a menu click, a
\* reveal and a pointer move have run on it.
C11_Witness ==
    /\ "typing-text" \notin dom /\ pc = "ready" /\ uncaught = {}
    /\ dataTheme = "light" /\ menuActive /\ active # {}
    /\ \E c \in tiltCards : transform[c].scale = Rat(105, 100)

-----------------------------------------------------------------------------
(* Scroll reveal: C12, C17 *)

\* The targets a batch reports as intersecting.
reported(entries) ==
    {entries[k].target : k \in {j \in DOMAIN entries : entries[j].isIntersecting}}

\* The 'active' set once the first k entries of a batch have been handled.
activeAfter(entries, k) == revealEntries(SubSeq(entries, 1, k), active, observed)[1]

\* C12: a reveal target turns Active at most once and never turns back: the
\* 'active' set only grows; a target turns Active in a callback only if the batch
\* reports it intersecting, it is Active as soon as the first such entry has been
\* handled, and it is still Active at the end of the callback whatever entries
\* for it follow.
C12_RevealOnce ==
    /\ [][active \subseteq active']_vars
    /\ [][\A entries \in EntryBatches(observed) :
             revealCallbackOn(entries) =>
                 /\ active' \ active \subseteq reported(entries)
                 /\ \A k \in DOMAIN entries :
                        entries[k].isIntersecting =>
                            /\ entries[k].target \in activeAfter(entries, k)
                            /\ entries[k].target \in active'
         ]_vars

\* Every target has turned Active, and nothing is observed any more.
C12_Witness ==
    /\ pc = "ready" /\ revealTargets # {}
    /\ active = revealTargets /\ observed = {}

\* C17: once the targets are registered, a target is observed exactly when it is
\* not yet Active; an element that a batch does not report intersecting stays as
\* it was, Pending and observed if it was so.
C17_ObservedIffPending ==
    /\ [](pc = "ready" => (observed = revealTargets \ active /\ revealClass = revealTargets))
    /\ [][\A entries \in EntryBatches(observed) :
             revealCallbackOn(entries) =>
                 \A t \in revealTargets \ reported(entries) :
                     /\ (t \in active') <=> (t \in active)
                     /\ (t \in observed') <=> (t \in observed)
         ]_vars

\* One target is Active and retired, the other still Pending and observed.
C17_Witness ==
    /\ pc = "ready"
    /\ active = {1} /\ observed = revealTargets \ {1} /\ observed # {}

-----------------------------------------------------------------------------
(* Card tilt: C13, C14, C15 *)

\* The pointer positions inside a card, its edges included.
insideX(r) == r.left .. (r.left + r.width)
insideY(r) == r.top .. (r.top + r.height)

\* -10 * (y - height/2) / (height/2) and 10 * (x - width/2) / (width/2) for the
\* pointer at (x, y) from the top-left corner, as fractions in lowest terms.
expectedRotateX(r, y) == Rat(-10 * (2 * y - r.height), r.height)
expectedRotateY(r, x) == Rat(10 * (2 * x - r.width), r.width)

\* -10 <= q <= 10 for a fraction q with a positive denominator.
withinTen(q) == -10 * q[2] <= q[1] /\ q[1] <= 10 * q[2]

C15_LastEventWins ==
    [][/\ \A card \in tiltCards :
            \A clientX \in insideX(rect[card]), clientY \in insideY(rect[card]) :
               mousemove(card, clientX, clientY) =>
                   /\ transform'[card] =
                          [perspective |-> 1000,
                           rotateX |-> expectedRotateX(rect[card], clientY - rect[card].top),
                           rotateY |-> expectedRotateY(rect[card], clientX - rect[card].left),
                           scale |-> Rat(105, 100)]
                   /\ \A other \in tiltCards \ {card} : transform'[other] = transform[other]
       /\ \A card \in tiltCards :
            mouseleave(card) =>
                /\ transform'[card].rotateX = Rat(0, 1)
                /\ transform'[card].rotateY = Rat(0, 1)
                /\ transform'[card].scale = Rat(1, 1)
                /\ \A other \in tiltCards \ {card} : transform'[other] = transform[other]
      ]_vars

\* The pointer has left card 1 while card 2 keeps the tilt of its last move.
C15_Witness ==
    /\ pc = "ready"
    /\ transform[1] = resetTransform
    /\ transform[2].scale = Rat(105, 100) /\ transform[2].rotateX # Rat(0, 1)

-----------------------------------------------------------------------------
(* Mobile menu: C16 *)

\* C16: the menu is closed until the page has loaded; every click on the menu
\* button flips it between open and closed; after every click on a nav link it
\* is closed, whatever it was; no other step changes it.  So the menu is open
\* exactly when the number of button clicks since the last nav-link click, or
\* since the load, is odd.
C16_MenuOpenClose ==
    /\ [](pc = "init" => ~menuActive)
    /\ [][/\ DOMContentLoaded => ~menuActive'
          /\ mobileMenuClick => (menuActive' <=> ~menuActive)
          /\ NavLinkClick => ~menuActive'
          /\ ~(mobileMenuClick \/ NavLinkClick) => (menuActive' <=> menuActive)
         ]_vars

\* The menu is open and a nav link can be clicked.
C16_Witness ==
    /\ pc = "ready" /\ menuActive
    /\ "main-nav" \in dom
    /\ \E i \in navLinks : <<"nav-link", i>> \in listeners

-----------------------------------------------------------------------------
(* Rendered text: C18 *)

\* The first n characters of role r.
firstChars(r, n) == SubSeq(r, 1, n)

\* C18: after every tick of the animator, the text in the typing element is the
\* first charIndex characters of roles[roleIndex], with the values charIndex and
\* roleIndex have after that tick; on the tick that advances roleIndex the text
\* is empty.
C18_TextTracksCursor ==
    /\ [](animatorStarted =>
            /\ charIndex <= Len(roles[roleIndex + 1])
            /\ textContent = firstChars(roles[roleIndex + 1], charIndex))
    /\ [][(TickStep /\ roleIndex' # roleIndex) => textContent' = <<>>]_vars

\* The tick that deleted the last character of a role has just advanced
\* roleIndex; before it, role 0 was on screen in part.
C18_Witness ==
    /\ animatorStarted
    /\ roleIndex = 1 /\ charIndex = 0 /\ ~isDeleting /\ textContent = <<>>
    /\ Len(roles) > 1 /\ roles[1] # roles[2]

-----------------------------------------------------------------------------
(* Independence of the components: C19 *)

\* The components whose state a step changes.
changedComponents ==
    (IF themeVars' # themeVars THEN {"theme"} ELSE {})
        \cup (IF menuActive' # menuActive THEN {"menu"} ELSE {})
        \cup (IF typingVars' # typingVars THEN {"typing"} ELSE {})
        \cup (IF revealVars' # revealVars THEN {"reveal"} ELSE {})
        \cup (IF tiltVars' # tiltVars THEN {"tilt"} ELSE {})

\* The cards whose transform a step changes.
changedCards == {c \in tiltCards : transform'[c] # transform[c]}

\* C19: in every interleaving of the events, a theme toggle changes only the
\* mode marker and the persisted preference, a menu or nav-link click only the
\* menu state, a typing tick only the animator state, its text and its timer, a
\* visibility callback only the reveal state and the observed set, and a pointer
\* event only the transform of the one card it targets; none of them changes
\* the page or the registered listeners.  For the visibility callback and the
\* pointer events the implication is written from its right-hand side: a step
\* that changes anything else is not such an event.
C19_ComponentsIndependent ==
    [][/\ themeToggleClick => changedComponents \subseteq {"theme"}
       /\ (mobileMenuClick \/ NavLinkClick) => changedComponents \subseteq {"menu"}
       /\ typeEffect => changedComponents \subseteq {"typing"}
       /\ ~(changedComponents \subseteq {"reveal"} /\ revealClass' = revealClass)
              => ~revealCallback
       /\ \A card \in tiltCards :
              ~(/\ changedComponents \subseteq {"tilt"}
                /\ changedCards \subseteq {card}
                /\ tiltClass' = tiltClass)
                  => /\ ~mouseleave(card)
                     /\ \A clientX \in insideX(rect[card]), clientY \in insideY(rect[card]) :
                            ~mousemove(card, clientX, clientY)
       /\ (pc = "ready" /\ pc' = "ready" /\ pageLoads' = pageLoads) =>
              /\ Cardinality(changedComponents) <= 1
              /\ Cardinality(changedCards) <= 1
              /\ UNCHANGED <<envVars, listeners>>
      ]_vars

\* Every component has acted: the theme was toggled, the menu is open, the
\* animator is deleting, a section is revealed and a card is tilted.
C19_Witness ==
    /\ pc = "ready"
    /\ dataTheme = "light" /\ localStorage = "light"
    /\ menuActive
    /\ isDeleting /\ charIndex > 0
    /\ active # {} /\ observed # {}
    /\ \E c \in tiltCards : transform[c].scale = Rat(105, 100)

-----------------------------------------------------------------------------
(* Mode marker and persisted preference: C20 *)

\* C20: on a page that starts with the marker absent and the store holding
\* nothing, "light" or "dark", after initTheme and after every sequence of
\* toggle clicks the marker is present exactly when the persisted value is
\* "light"; initTheme never writes the store, and with nothing persisted it
\* leaves the marker absent.
C20_MarkerMatchesStore ==
    /\ [](pc = "loading" => dataTheme = null /\ localStorage \in StoredValues)
    /\ [](pc = "ready" => ((dataTheme # null) <=> (localStorage = "light")))
    /\ [][(DOMContentLoaded \/ Reload) =>
             /\ localStorage' = localStorage
             /\ (localStorage = null) => (dataTheme' = null)
         ]_vars

\* The first load found "dark" saved, or followed two toggles: the marker is absent.
C20_Witness ==
    /\ pc = "ready" /\ pageLoads = 1
    /\ localStorage = "dark" /\ dataTheme = null

=============================================================================
